---------------------------- MODULE Spec2Model ----------------------------
(***************************************************************************)
(* Model of src/app.py, the "AI Assisted Brand Name Corrector": a script   *)
(* that builds a brand registry, reads an uploaded workbook, sends the     *)
(* 'brand' column of every sheet to a chat-completion oracle, normalizes   *)
(* and parses the answer, writes it back and exports the workbook.         *)
(*                                                                         *)
(* Texts are sequences of symbols.  A symbol is a whitespace character     *)
(* (" " or the line feed), a backtick ("bt"), or a word: a run of characters that *)
(* holds no whitespace, backtick, comma or quote and is kept atomic.       *)
(* Column labels are strings; "#2024" stands for the integer label that    *)
(* pandas gives a numeric header cell.                                     *)
(***************************************************************************)
EXTENDS Naturals, Sequences, FiniteSets

VARIABLES
    pc,               \* position of the script run
    site,             \* environment: brand names the scraped page lists
    MANUAL_BRANDS,    \* app.py:32
    SUPERDRUG_BRANDS, \* app.py:50/52
    KNOWN_BRANDS,     \* app.py:53
    uploaded_file,    \* environment: the uploaded file (never changes)
    sheets,           \* app.py:87, frames are mutated in place by line 137
    corrected_sheets, \* app.py:92, names in insertion order (frames are shared with sheets)
    processed_any,    \* app.py:93
    idx,              \* position of the for loop of line 95 in sheets
    col,              \* app.py:102
    prompt,           \* app.py:108
    res,              \* app.py:114
    corrected_csv,    \* app.py:128
    corrected_df,     \* app.py:131
    shown,            \* what st.code has put on the page (line 134)
    out,              \* app.py:145, the export buffer handed to the download button
    calls,            \* history: oracle calls issued, one record per call
    norm              \* texts of the normalizer study: x, normalize(x), ...

vars == <<pc, site, MANUAL_BRANDS, SUPERDRUG_BRANDS, KNOWN_BRANDS, uploaded_file,
          sheets, corrected_sheets, processed_any, idx, col, prompt, res,
          corrected_csv, corrected_df, shown, out, calls, norm>>

-----------------------------------------------------------------------------
(* Bounds *)

MaxSheets == 2      \* sheets of an uploaded workbook
MaxRows == 2        \* data rows of a sheet
MaxLen == 6         \* symbols of a raw text of the normalizer study
MaxList == 3        \* names of a manual or scraped brand list

NL == "\n"
BT == "bt"         \* one backtick character

-----------------------------------------------------------------------------
(* Text primitives: str.strip, str.splitlines, str.startswith, str.join *)

IsSpace(c) == c \in {" ", NL}

RECURSIVE LStrip(_)
LStrip(s) == IF s # <<>> /\ IsSpace(Head(s)) THEN LStrip(Tail(s)) ELSE s

RECURSIVE RStrip(_)
RStrip(s) ==
    IF s # <<>> /\ IsSpace(s[Len(s)]) THEN RStrip(SubSeq(s, 1, Len(s) - 1)) ELSE s

Strip(s) == RStrip(LStrip(s))

\* str.splitlines(): a line ends at each line feed; no final empty line
RECURSIVE SplitLinesFrom(_, _, _, _)
SplitLinesFrom(s, i, cur, acc) ==
    IF i > Len(s) THEN (IF cur = <<>> THEN acc ELSE Append(acc, cur))
    ELSE IF s[i] = NL THEN SplitLinesFrom(s, i + 1, <<>>, Append(acc, cur))
    ELSE SplitLinesFrom(s, i + 1, Append(cur, s[i]), acc)

SplitLines(s) == SplitLinesFrom(s, 1, <<>>, <<>>)

StartsWithFence(l) == Len(l) >= 3 /\ l[1] = BT /\ l[2] = BT /\ l[3] = BT

\* l.strip().startswith(fence), the fence being three backticks
IsFenceLine(l) == StartsWithFence(Strip(l))

\* "\n".join(lines)
RECURSIVE Join(_)
Join(lines) ==
    IF lines = <<>> THEN <<>>
    ELSE IF Len(lines) = 1 THEN lines[1]
    ELSE lines[1] \o <<NL>> \o Join(Tail(lines))

\* what KeepLine would be had line 127 tested l, not l.strip()
KeepLineNoStrip(l) == ~StartsWithFence(l)

KeepLine(l) == ~IsFenceLine(l)

\* lines 126-128: corrected_output -> corrected_csv
Normalize(raw) == Join(SelectSeq(SplitLines(Strip(raw)), KeepLine))

-----------------------------------------------------------------------------
(* Brand registry, lines 49-53 *)

SeqSet(s) == {s[i] : i \in 1..Len(s)}

\* list(dict.fromkeys(xs)): each key once, in order of first insertion
RECURSIVE FromKeys(_, _)
FromKeys(xs, acc) ==
    IF xs = <<>> THEN acc
    ELSE FromKeys(Tail(xs), IF Head(xs) \in SeqSet(acc) THEN acc ELSE Append(acc, Head(xs)))

\* what BuildRegistry would be without the dict.fromkeys of line 53
BuildRegistryPlain(manual, scraped) == manual \o scraped

BuildRegistry(manual, scraped) == FromKeys(manual \o scraped, <<>>)

-----------------------------------------------------------------------------
(* Data frames.  A frame is [columns, data]: the column labels in order    *)
(* and, per column, its cells by row (the index is always 0..N-1, here     *)
(* 1..N).  A cell is a text or NaN.                                        *)

NaN == <<"#NaN">>           \* the missing value (float nan)
EmptyCell == <<"#empty">>   \* a spreadsheet cell that holds nothing
BRAND == <<"brand">>        \* the literal 'brand' of lines 96 and 137

IntLabels == {<<"#2024">>}  \* labels that are integers, not str

NRows(df) == IF df.data = <<>> THEN 0 ELSE Len(df.data[1])

\* str.lower() on the labels the model uses
LowerSym(c) == IF c \in {"Brand", "BRAND"} THEN "brand" ELSE c
Lower(label) == [i \in 1..Len(label) |-> LowerSym(label[i])]

\* line 96: the positions of the labels that lower() to 'brand'
BrandCols(df) == {k \in 1..Len(df.columns) : Lower(df.columns[k]) = BRAND}

\* line 96 raises AttributeError when a label is not a str (int has no lower)
LowerRaises(df) == \E k \in 1..Len(df.columns) : df.columns[k] \in IntLabels

Min(S) == CHOOSE x \in S : \A y \in S : x <= y

\* line 102: brand_cols[0]
FirstBrandCol(df) == Min(BrandCols(df))

\* Series.astype(str)
AsStr(v) == IF v = NaN THEN <<"nan">> ELSE v

\* lines 103-106: Series.astype(str).to_csv(index=False, header=True)
RECURSIVE CsvRows(_)
CsvRows(values) ==
    IF values = <<>> THEN <<>>
    ELSE AsStr(Head(values)) \o <<NL>> \o CsvRows(Tail(values))

ToCsv(label, values) == label \o <<NL>> \o CsvRows(values)

\* pandas' default na_values, restricted to the words the model uses
NaValues == {<<"NA">>, <<"nan">>}

ParseField(f) == IF f \in NaValues THEN NaN ELSE f

\* the tokenizer skips empty lines and lines of blanks only (skip_blank_lines)
IsBlankLine(l) == \A i \in 1..Len(l) : l[i] = " "
NotBlankLine(l) == ~IsBlankLine(l)

\* what ParseColumn would be had read_csv taken the first line for data
ParseColumnWithHeader(ls) == [r \in 1..(Len(ls) - 1) |-> ParseField(ls[r])]

ParseColumn(ls) == [r \in 1..(Len(ls) - 1) |-> ParseField(ls[r + 1])]

\* line 131: pd.read_csv on a text whose lines hold one field each.  The
\* first line kept is the header; no line at all raises EmptyDataError.
ReadCsv(text) ==
    LET ls == SelectSeq(SplitLines(text), NotBlankLine)
    IN  IF ls = <<>>
        THEN [raised |-> TRUE, columns |-> <<>>, data |-> <<>>]
        ELSE [raised |-> FALSE, columns |-> <<ls[1]>>, data |-> <<ParseColumn(ls)>>]

\* line 137, right-hand side: corrected_df['brand'] raises KeyError
HasBrand(cdf) == \E k \in 1..Len(cdf.columns) : cdf.columns[k] = BRAND

\* line 137: df[col] = series aligns the series on the frame's index:
\* rows the series lacks get NaN, rows the frame lacks are dropped
AlignSeries(series, n) == [r \in 1..n |-> IF r <= Len(series) THEN series[r] ELSE NaN]

\* what SetColumn would be had line 137 written every column of brand_cols
SetColumnAllBrand(df, k, series) ==
    [df EXCEPT !.data = [c \in 1..Len(df.data) |->
                          IF c \in BrandCols(df) THEN AlignSeries(series, NRows(df))
                          ELSE df.data[c]]]

SetColumn(df, k, series) ==
    [df EXCEPT !.data[k] = AlignSeries(series, NRows(df))]

\* line 87: pd.read_excel(sheet_name=None): an empty cell reads as NaN
FromExcelCell(v) == IF v = EmptyCell THEN NaN ELSE v
ReadSheet(ws) ==
    [name |-> ws.name,
     df |-> [columns |-> ws.columns,
             data |-> [k \in 1..Len(ws.data) |->
                        [r \in 1..Len(ws.data[k]) |-> FromExcelCell(ws.data[k][r])]]]]
ReadExcel(book) == [i \in 1..Len(book) |-> ReadSheet(book[i])]

\* line 148: DataFrame.to_excel(index=False): NaN is written as an empty cell
ToExcelCell(v) == IF v = NaN THEN EmptyCell ELSE v
ToExcel(name, df) ==
    [name |-> name,
     columns |-> df.columns,
     data |-> [k \in 1..Len(df.data) |->
                [r \in 1..Len(df.data[k]) |-> ToExcelCell(df.data[k][r])]]]

\* corrected_sheets[name]: the frame object stored under name (shared with sheets)
FrameOf(ss, name) == (CHOOSE i \in 1..Len(ss) : ss[i].name = name)

\* lines 145-148: one worksheet per entry of corrected_sheets, in its order
ExportBook(ss, names) == [j \in 1..Len(names) |-> ToExcel(names[j], ss[FrameOf(ss, names[j])].df)]

-----------------------------------------------------------------------------
(* Inputs: uploaded files, scraped pages, oracle answers *)

Layouts == {"A", "B", "C", "D"}

LayoutColumns(l) ==
    CASE l = "A" -> <<BRAND, <<"price">>>>
      [] l = "B" -> <<<<"price">>, <<"Brand">>, <<"BRAND">>>>
      [] l = "C" -> <<<<"price">>, <<"name">>>>
      [] l = "D" -> <<<<"#2024">>>>

LayoutRows(l) ==
    CASE l = "A" -> MaxRows
      [] l = "B" -> IF MaxRows > 1 THEN MaxRows - 1 ELSE 1
      [] l = "C" -> MaxRows
      [] l = "D" -> 1

InputCell(label, r) ==
    IF label \in {BRAND, <<"Brand">>}
    THEN (IF r % 2 = 1 THEN <<"Maybelin">> ELSE <<"Loreal">>)
    ELSE IF label = <<"BRAND">> THEN <<"Garnier">>
    ELSE IF label = <<"name">> THEN EmptyCell
    ELSE (IF r % 2 = 1 THEN <<"9.99">> ELSE <<"4.50">>)

SheetNames == <<"Q1", "Q2", "Q3", "Q4">>

Worksheet(l, i) ==
    [name |-> SheetNames[i],
     columns |-> LayoutColumns(l),
     data |-> [k \in 1..Len(LayoutColumns(l)) |->
                [r \in 1..LayoutRows(l) |-> InputCell(LayoutColumns(l)[k], r)]]]

Book(ls) == [i \in 1..Len(ls) |-> Worksheet(ls[i], i)]
Books == {Book(ls) : ls \in UNION {[1..n -> Layouts] : n \in 1..MaxSheets}}

NoFile == [kind |-> "none", book |-> <<>>]
CorruptFile == [kind |-> "corrupt", book |-> <<>>]
Uploads == {NoFile, CorruptFile} \cup {[kind |-> "xlsx", book |-> b] : b \in Books}

Names == {"A", "B", "C"}
Lists == UNION {[1..n -> Names] : n \in 0..MaxList}

\* answers of the oracle to a column of n values: a header line and either n
\* rows, at most one of them the word NA, or n-1 or n+1 rows; or nothing at all
Val(i) == IF i % 2 = 1 THEN <<"Nike">> ELSE <<"Puma">>
RowSeqs(n) ==
    {[i \in 1..n |-> IF i = na THEN <<"NA">> ELSE Val(i)] : na \in 0..n}
        \cup {[i \in 1..k |-> Val(i)] : k \in {n - 1, n + 1}}
Bodies(n) ==
    {[header |-> h, rows |-> rs] : h \in {BRAND, <<"Brand">>}, rs \in RowSeqs(n)}
        \cup {[header |-> <<>>, rows |-> <<>>]}
BodyLines(b) == (IF b.header = <<>> THEN <<>> ELSE <<b.header>>) \o b.rows

Wraps == {"plain", "fenced", "fenced_blank"}
Render(wrap, b) ==
    CASE wrap = "plain" -> Join(BodyLines(b))
      [] wrap = "fenced" ->
            <<BT, BT, BT, "csv", NL>> \o Join(BodyLines(b)) \o <<NL, BT, BT, BT>>
      [] wrap = "fenced_blank" ->
            <<BT, BT, BT, NL, NL>> \o Join(BodyLines(b)) \o <<NL, BT, BT, BT, NL>>

NoBody == [header |-> <<>>, rows |-> <<>>]
Failures == {"raise", "timeout", "no_choices", "no_content"}
Outcomes(n) ==
    {[kind |-> f, wrap |-> "plain", body |-> NoBody] : f \in Failures}
        \cup {[kind |-> "text", wrap |-> w, body |-> b] : w \in Wraps, b \in Bodies(n)}

Alphabet == {BT, NL, " ", "a"}
Texts == UNION {[1..n -> Alphabet] : n \in 0..MaxLen}

-----------------------------------------------------------------------------
(* The script *)

NoRes == [kind |-> "unset", content |-> <<>>]
NoFrame == [raised |-> FALSE, columns |-> <<>>, data |-> <<>>]
NoPrompt == [brands |-> <<>>, csv_brands |-> <<>>]

Locals == <<col, prompt, res, corrected_csv, corrected_df>>
Registry == <<site, MANUAL_BRANDS, SUPERDRUG_BRANDS, KNOWN_BRANDS>>

InitRun ==
    /\ SUPERDRUG_BRANDS = <<>>
    /\ KNOWN_BRANDS = <<>>
    /\ sheets = <<>>
    /\ corrected_sheets = <<>>
    /\ processed_any = FALSE
    /\ idx = 1
    /\ col = 0
    /\ prompt = NoPrompt
    /\ res = NoRes
    /\ corrected_csv = <<>>
    /\ corrected_df = NoFrame
    /\ shown = <<>>
    /\ out = <<>>
    /\ calls = <<>>

Init ==
    /\ InitRun
    /\ pc = "fetch"
    /\ MANUAL_BRANDS = <<"Maybelline", "Garnier">>
    /\ site = <<"Garnier", "Nike">>
    /\ uploaded_file \in Uploads
    /\ norm = <<>>

\* lines 49-53, the scrape returns the page's names
FetchBrands ==
    /\ pc = "fetch"
    /\ SUPERDRUG_BRANDS' = site
    /\ KNOWN_BRANDS' = BuildRegistry(MANUAL_BRANDS, site)
    /\ pc' = "upload"
    /\ UNCHANGED <<site, MANUAL_BRANDS, uploaded_file, sheets, corrected_sheets,
                   processed_any, idx, Locals, shown, out, calls, norm>>

\* lines 49-53, the scrape raises (requests, raise_for_status, the parser)
FetchBrandsRaises ==
    /\ pc = "fetch"
    /\ SUPERDRUG_BRANDS' = <<>>
    /\ KNOWN_BRANDS' = BuildRegistry(MANUAL_BRANDS, <<>>)
    /\ pc' = "upload"
    /\ UNCHANGED <<site, MANUAL_BRANDS, uploaded_file, sheets, corrected_sheets,
                   processed_any, idx, Locals, shown, out, calls, norm>>

\* lines 81-84: no file yet, st.info and st.stop
AwaitUpload ==
    /\ pc = "upload"
    /\ uploaded_file.kind = "none"
    /\ pc' = "no_file"
    /\ UNCHANGED <<Registry, uploaded_file, sheets, corrected_sheets,
                   processed_any, idx, Locals, shown, out, calls, norm>>

\* lines 86-93: read_excel, or st.error and st.stop when it raises
ReadUpload ==
    /\ pc = "upload"
    /\ uploaded_file.kind # "none"
    /\ IF uploaded_file.kind = "corrupt"
       THEN pc' = "read_error" /\ UNCHANGED sheets
       ELSE pc' = "loop" /\ sheets' = ReadExcel(uploaded_file.book)
    /\ UNCHANGED <<Registry, uploaded_file, corrected_sheets,
                   processed_any, idx, Locals, shown, out, calls, norm>>

InLoop == pc = "loop" /\ idx <= Len(sheets)

\* line 96 raises on a label that is no str: the run dies of AttributeError
LabelRaises ==
    /\ InLoop
    /\ LowerRaises(sheets[idx].df)
    /\ pc' = "uncaught_AttributeError"
    /\ UNCHANGED <<Registry, uploaded_file, sheets, corrected_sheets,
                   processed_any, idx, Locals, shown, out, calls, norm>>

\* lines 95-99: no brand column, the frame is kept as it is
SkipSheet ==
    /\ InLoop
    /\ ~LowerRaises(sheets[idx].df)
    /\ BrandCols(sheets[idx].df) = {}
    /\ corrected_sheets' = Append(corrected_sheets, sheets[idx].name)
    /\ idx' = idx + 1
    /\ UNCHANGED <<pc, Registry, uploaded_file, sheets,
                   processed_any, Locals, shown, out, calls, norm>>

\* lines 101-111: serialize the column and build the prompt
BuildPrompt ==
    /\ InLoop
    /\ ~LowerRaises(sheets[idx].df)
    /\ BrandCols(sheets[idx].df) # {}
    /\ processed_any' = TRUE
    /\ col' = FirstBrandCol(sheets[idx].df)
    /\ prompt' = [brands |-> KNOWN_BRANDS,
                  csv_brands |-> ToCsv(sheets[idx].df.columns[col'],
                                       sheets[idx].df.data[col'])]
    /\ pc' = "call"
    /\ UNCHANGED <<Registry, uploaded_file, sheets, corrected_sheets, idx,
                   res, corrected_csv, corrected_df, shown, out, calls, norm>>

\* what CallOracle would be had the except branch gone on to the next sheet
CallOracleSkipsOnError ==
    /\ pc = "call"
    /\ \E o \in Outcomes(NRows(sheets[idx].df)) :
        /\ calls' = Append(calls, [sheet |-> sheets[idx].name, kind |-> o.kind,
                                   header |-> o.body.header, rows |-> o.body.rows])
        /\ IF o.kind \in {"raise", "timeout"}
           THEN /\ pc' = "loop"
                /\ idx' = idx + 1
                /\ corrected_sheets' = Append(corrected_sheets, sheets[idx].name)
                /\ UNCHANGED res
           ELSE /\ pc' = "normalize"
                /\ res' = [kind |-> o.kind,
                           content |-> IF o.kind = "text" THEN Render(o.wrap, o.body)
                                       ELSE <<>>]
                /\ UNCHANGED <<idx, corrected_sheets>>
    /\ UNCHANGED <<Registry, uploaded_file, sheets, processed_any,
                   col, prompt, corrected_csv, corrected_df, shown, out, norm>>

\* lines 112-124: one call; an exception (a timeout too) is st.error and st.stop
CallOracle ==
    /\ pc = "call"
    /\ \E o \in Outcomes(NRows(sheets[idx].df)) :
        /\ calls' = Append(calls, [sheet |-> sheets[idx].name, kind |-> o.kind,
                                   header |-> o.body.header, rows |-> o.body.rows])
        /\ IF o.kind \in {"raise", "timeout"}
           THEN pc' = "api_error" /\ UNCHANGED res
           ELSE /\ pc' = "normalize"
                /\ res' = [kind |-> o.kind,
                           content |-> IF o.kind = "text" THEN Render(o.wrap, o.body)
                                       ELSE <<>>]
    /\ UNCHANGED <<Registry, uploaded_file, sheets, corrected_sheets, processed_any,
                   idx, col, prompt, corrected_csv, corrected_df, shown, out, norm>>

\* lines 126-128; choices[0] raises IndexError on no choice, None.strip()
\* raises AttributeError, and nothing catches either
NormalizeResponse ==
    /\ pc = "normalize"
    /\ CASE res.kind = "no_choices" -> pc' = "uncaught_IndexError" /\ UNCHANGED corrected_csv
         [] res.kind = "no_content" -> pc' = "uncaught_AttributeError" /\ UNCHANGED corrected_csv
         [] OTHER -> pc' = "parse" /\ corrected_csv' = Normalize(res.content)
    /\ UNCHANGED <<Registry, uploaded_file, sheets, corrected_sheets, processed_any,
                   idx, col, prompt, res, corrected_df, shown, out, calls, norm>>

\* lines 130-135: read_csv; when it raises, st.error, st.code and st.stop
ParseResponse ==
    /\ pc = "parse"
    /\ IF ReadCsv(corrected_csv).raised
       THEN /\ pc' = "parse_error"
            /\ shown' = Append(shown, corrected_csv)
            /\ UNCHANGED corrected_df
       ELSE /\ pc' = "assign"
            /\ corrected_df' = ReadCsv(corrected_csv)
            /\ UNCHANGED shown
    /\ UNCHANGED <<Registry, uploaded_file, sheets, corrected_sheets, processed_any,
                   idx, col, prompt, res, corrected_csv, out, calls, norm>>

\* lines 137-138; corrected_df['brand'] raises KeyError and nothing catches it.
\* The names of the iteration are read by no later line: the model forgets them.
AssignColumn ==
    /\ pc = "assign"
    /\ IF ~HasBrand(corrected_df)
       THEN /\ pc' = "uncaught_KeyError"
            /\ UNCHANGED <<sheets, corrected_sheets, idx, Locals>>
       ELSE /\ sheets' = [sheets EXCEPT ![idx].df =
                            SetColumn(@, col, corrected_df.data[1])]
            /\ corrected_sheets' = Append(corrected_sheets, sheets[idx].name)
            /\ idx' = idx + 1
            /\ pc' = "loop"
            /\ col' = 0
            /\ prompt' = NoPrompt
            /\ res' = NoRes
            /\ corrected_csv' = <<>>
            /\ corrected_df' = NoFrame
    /\ UNCHANGED <<Registry, uploaded_file, processed_any, shown, out, calls, norm>>

LoopDone == pc = "loop" /\ idx > Len(sheets)

\* lines 140-142: st.error and st.stop
NothingProcessed ==
    /\ LoopDone
    /\ ~processed_any
    /\ pc' = "nothing_to_correct"
    /\ UNCHANGED <<Registry, uploaded_file, sheets, corrected_sheets,
                   processed_any, idx, Locals, shown, out, calls, norm>>

\* what Export would be without the check of lines 140-142
ExportUnguarded ==
    /\ pc = "loop" /\ idx > Len(sheets)
    /\ out' = Append(out, ExportBook(sheets, corrected_sheets))
    /\ pc' = "done"
    /\ UNCHANGED <<Registry, uploaded_file, sheets, corrected_sheets,
                   processed_any, idx, Locals, shown, calls, norm>>

\* lines 140-166: write the workbook and offer it for download (the column
\* widths of lines 149-156 set no cell and are left out)
Export ==
    /\ LoopDone
    /\ processed_any
    /\ out' = Append(out, ExportBook(sheets, corrected_sheets))
    /\ pc' = "done"
    /\ UNCHANGED <<Registry, uploaded_file, sheets, corrected_sheets,
                   processed_any, idx, Locals, shown, calls, norm>>

Next ==
    \/ FetchBrands
    \/ FetchBrandsRaises
    \/ AwaitUpload
    \/ ReadUpload
    \/ LabelRaises
    \/ SkipSheet
    \/ BuildPrompt
    \/ CallOracle
    \/ NormalizeResponse
    \/ ParseResponse
    \/ AssignColumn
    \/ NothingProcessed
    \/ Export

Spec == Init /\ [][Next]_vars

-----------------------------------------------------------------------------
(* The registry on its own: every manual list and every scraped page *)

InitRegistry ==
    /\ InitRun
    /\ pc = "fetch"
    /\ MANUAL_BRANDS \in Lists
    /\ site \in Lists
    /\ uploaded_file = NoFile
    /\ norm = <<>>

NextRegistry ==
    \/ FetchBrands
    \/ FetchBrandsRaises
    \/ AwaitUpload

SpecRegistry == InitRegistry /\ [][NextRegistry]_vars

-----------------------------------------------------------------------------
(* The normalizer on its own: lines 126-128 applied to every raw text, and *)
(* applied again to what they gave                                         *)

InitNormalizer ==
    /\ InitRun
    /\ pc = "study"
    /\ MANUAL_BRANDS = <<>>
    /\ site = <<>>
    /\ uploaded_file = NoFile
    /\ norm \in {<<x>> : x \in Texts}

ApplyNormalize ==
    /\ pc = "study"
    /\ Len(norm) \in 1..2
    /\ norm' = Append(norm, Normalize(norm[Len(norm)]))
    /\ UNCHANGED <<pc, Registry, uploaded_file, sheets, corrected_sheets,
                   processed_any, idx, Locals, shown, out, calls>>

NextNormalizer == ApplyNormalize

SpecNormalizer == InitNormalizer /\ [][NextNormalizer]_vars

-----------------------------------------------------------------------------
(* Vocabulary of the properties *)

\* t[i..i+2] are three backticks with only blanks between them and the
\* start of their line: t has a fence line
HasFenceLine(t) ==
    \E i \in 1..Len(t) :
        /\ i + 2 <= Len(t)
        /\ t[i] = BT /\ t[i + 1] = BT /\ t[i + 2] = BT
        /\ \E s \in 0..(i - 1) :
            /\ s = 0 \/ t[s] = NL
            /\ \A j \in (s + 1)..(i - 1) : t[j] = " "

\* t without the whitespace at its two ends
NonSpaceAt(t) == {i \in 1..Len(t) : ~IsSpace(t[i])}
Trimmed(t) ==
    IF NonSpaceAt(t) = {} THEN <<>>
    ELSE SubSeq(t, CHOOSE i \in NonSpaceAt(t) : \A j \in NonSpaceAt(t) : i <= j,
                   CHOOSE i \in NonSpaceAt(t) : \A j \in NonSpaceAt(t) : j <= i)

\* position of the first occurrence of x in s
FirstIndex(s, x) == CHOOSE i \in 1..Len(s) : s[i] = x /\ \A j \in 1..(i - 1) : s[j] # x

-----------------------------------------------------------------------------
(* C9 *)

\* C9 as the specification states it: for every raw text x,
\* normalize(normalize(x)) = normalize(x), and normalize(x) has no fence line.
C9_Idempotent ==
    Len(norm) = 3 => (norm[3] = norm[2] /\ ~HasFenceLine(norm[2]))

\* C9, amended: normalizing a second time only strips the whitespace the
\* first pass left at the two ends of the text (a blank line that stood next
\* to a leading or trailing fence), so normalize(normalize(x)) =
\* normalize(x) whenever normalize(x) neither starts nor ends with whitespace;
\* and no text that normalize returns has a fence line.
C9_IdempotentUpToStrip ==
    /\ Len(norm) >= 2 => ~HasFenceLine(norm[2])
    /\ Len(norm) = 3 => (norm[3] = Trimmed(norm[2]) /\ ~HasFenceLine(norm[3]))

\* a text ending in a blank line and a fence is normalized twice: the first
\* pass drops the fence, the second the line feed the first one left
C9_Witness ==
    /\ Len(norm) = 3
    /\ norm[1] = <<"a", NL, NL, BT, BT, BT>>
    /\ norm[2] = <<"a", NL>>
    /\ norm[3] = <<"a">>

-----------------------------------------------------------------------------
(* C10 *)

\* C10: once built, the registry holds every name of the manual list and of
\* the scraped list exactly once, in the order of first occurrence in manual
\* followed by scraped; a scrape that raises leaves the scraped list empty,
\* the registry is then the manual names alone, and the run goes on.
C10_Registry ==
    pc # "fetch" =>
        /\ pc \in {"upload", "no_file"}
        /\ SUPERDRUG_BRANDS \in {site, <<>>}
        /\ SeqSet(KNOWN_BRANDS) = SeqSet(MANUAL_BRANDS) \cup SeqSet(SUPERDRUG_BRANDS)
        /\ \A i, j \in 1..Len(KNOWN_BRANDS) :
            i < j => /\ KNOWN_BRANDS[i] # KNOWN_BRANDS[j]
                     /\ FirstIndex(MANUAL_BRANDS \o SUPERDRUG_BRANDS, KNOWN_BRANDS[i])
                          < FirstIndex(MANUAL_BRANDS \o SUPERDRUG_BRANDS, KNOWN_BRANDS[j])

\* build_registry(["A","B","A"], ["B","C"]) has given ["A","B","C"]
C10_Witness ==
    /\ pc = "upload"
    /\ MANUAL_BRANDS = <<"A", "B", "A">>
    /\ SUPERDRUG_BRANDS = <<"B", "C">>
    /\ KNOWN_BRANDS = <<"A", "B", "C">>

-----------------------------------------------------------------------------
(* Vocabulary of the pipeline properties, in terms of the uploaded file *)

IsBook == uploaded_file.kind = "xlsx"
UpBook == uploaded_file.book
BrandIdx(ws) == {k \in 1..Len(ws.columns) : Lower(ws.columns[k]) = BRAND}
HasTarget(ws) == BrandIdx(ws) # {}
TargetCol(ws) == CHOOSE k \in BrandIdx(ws) : \A m \in BrandIdx(ws) : k <= m
SheetRows(ws) == Len(ws.data[1])
SheetIndex(name) == CHOOSE j \in 1..Len(UpBook) : UpBook[j].name = name
CallsFor(name) == {k \in 1..Len(calls) : calls[k].sheet = name}
TargetSheets == {j \in 1..Len(UpBook) : HasTarget(UpBook[j])}

\* the run has ended: st.stop(), an uncaught exception, or the last line
Stopped ==
    pc \in {"no_file", "read_error", "api_error", "parse_error", "nothing_to_correct",
            "uncaught_AttributeError", "uncaught_IndexError", "uncaught_KeyError", "done"}

\* the cell a data row of the answer is exported as
ExpectedCell(row) == IF row \in NaValues THEN EmptyCell ELSE row

-----------------------------------------------------------------------------
(* C1 *)

\* C1: when the answer for a sheet with a brand column of N rows parses to a
\* 'brand' column of another number of rows, the run fails with the
\* response-parse error: the answer is never written into the sheet and no
\* workbook is exported.
C1_ShapeCheck ==
    \A k \in 1..Len(calls) :
        (/\ calls[k].kind = "text"
         /\ calls[k].header = BRAND
         /\ Len(calls[k].rows) # SheetRows(UpBook[SheetIndex(calls[k].sheet)]))
        => /\ pc \in {"normalize", "parse", "assign", "parse_error"}
           /\ out = <<>>
           /\ sheets[SheetIndex(calls[k].sheet)]
                = ReadExcel(UpBook)[SheetIndex(calls[k].sheet)]

-----------------------------------------------------------------------------
(* C2 *)

\* C2 as the specification states it: in the exported workbook every sheet
\* keeps its name, and where the oracle answered a sheet of N rows with the
\* header 'brand' and N rows, the i-th cell of the sheet's brand column is the
\* i-th data row of the answer.
C2_Positional ==
    pc = "done" =>
        /\ Len(out[1]) = Len(UpBook)
        /\ \A j \in 1..Len(UpBook) :
            /\ out[1][j].name = UpBook[j].name
            /\ \A k \in CallsFor(UpBook[j].name) :
                (calls[k].header = BRAND /\ Len(calls[k].rows) = SheetRows(UpBook[j]))
                => \A i \in 1..SheetRows(UpBook[j]) :
                     out[1][j].data[TargetCol(UpBook[j])][i] = calls[k].rows[i]

\* C2, amended: the same, except that a data row which is one of read_csv's
\* missing-value words (NA, nan, ...) is exported as an empty cell.
C2_PositionalParsed ==
    pc = "done" =>
        /\ Len(out[1]) = Len(UpBook)
        /\ \A j \in 1..Len(UpBook) :
            /\ out[1][j].name = UpBook[j].name
            /\ \A k \in CallsFor(UpBook[j].name) :
                (calls[k].header = BRAND /\ Len(calls[k].rows) = SheetRows(UpBook[j]))
                => \A i \in 1..SheetRows(UpBook[j]) :
                     out[1][j].data[TargetCol(UpBook[j])][i]
                        = ExpectedCell(calls[k].rows[i])

\* sheet Q1, brand = [Maybelin, Loreal], answered [Nike, Puma], is exported
C2_Witness ==
    /\ pc = "done"
    /\ UpBook[1].data[1] = <<<<"Maybelin">>, <<"Loreal">>>>
    /\ calls[1].header = BRAND
    /\ calls[1].rows = <<<<"Nike">>, <<"Puma">>>>
    /\ out[1][1].name = "Q1"
    /\ out[1][1].data[1] = <<<<"Nike">>, <<"Puma">>>>

-----------------------------------------------------------------------------
(* C3 *)

-----------------------------------------------------------------------------
(* C4 *)

\* C4: a sheet without a brand column is no error (the run does not end at
\* it), is never sent to the oracle, is carried into the corrected
\* workbook and the export as it was; and there are never more oracle calls
\* than sheets with a brand column.
C4_PassThrough ==
    IsBook =>
        /\ Len(calls) <= Cardinality(TargetSheets)
        /\ \A j \in 1..Len(UpBook) :
            ~HasTarget(UpBook[j]) =>
                /\ CallsFor(UpBook[j].name) = {}
                /\ (sheets # <<>> /\ idx = j) => pc = "loop"
                /\ (sheets # <<>> /\ idx > j) =>
                    /\ UpBook[j].name \in SeqSet(corrected_sheets)
                    /\ sheets[j] = ReadExcel(UpBook)[j]
                /\ pc = "done" => out[1][j] = UpBook[j]

-----------------------------------------------------------------------------
(* C5 *)

\* C5: when no sheet of the workbook has a brand column, the run never calls
\* the oracle, never exports, and ends in an error state; and an export
\* exists only when a sheet with a brand column was processed.
C5_NoTargetFatal ==
    /\ (IsBook /\ TargetSheets = {}) =>
        /\ calls = <<>>
        /\ out = <<>>
        /\ pc # "done"
        /\ Stopped \/ ENABLED Next
    /\ out # <<>> =>
        /\ processed_any
        /\ \E j \in TargetSheets :
            /\ UpBook[j].name \in SeqSet(corrected_sheets)
            /\ CallsFor(UpBook[j].name) # {}

\* a workbook of two sheets, neither with a brand column, ended in the
\* nothing-to-correct error
C5_Witness ==
    /\ pc = "nothing_to_correct"
    /\ Len(sheets) = 2
    /\ corrected_sheets = <<"Q1", "Q2">>
    /\ calls = <<>>
    /\ out = <<>>

-----------------------------------------------------------------------------
(* C6 *)

\* C6: a failed oracle call is the last call of the run: no sheet is called
\* twice, nothing is exported, and a call that raised or timed out leaves
\* the run stopped in the API-error state.
C6_FailFast ==
    \A k \in 1..Len(calls) :
        /\ \A m \in 1..Len(calls) : m # k => calls[m].sheet # calls[k].sheet
        /\ calls[k].kind \in Failures =>
            /\ k = Len(calls)
            /\ out = <<>>
            /\ pc \in {"api_error", "normalize",
                       "uncaught_IndexError", "uncaught_AttributeError"}
        /\ calls[k].kind \in {"raise", "timeout"} =>
            (pc = "api_error" /\ ~ENABLED Next)

\* the first sheet was corrected, the call for the second timed out
C6_Witness ==
    /\ pc = "api_error"
    /\ Len(calls) = 2
    /\ calls[1].kind = "text"
    /\ calls[2].kind = "timeout"
    /\ corrected_sheets = <<"Q1">>
    /\ sheets[1] # ReadExcel(UpBook)[1]
    /\ out = <<>>

-----------------------------------------------------------------------------
(* C7 *)

\* C7: an answer that does not parse, or that parses to something else than
\* the one column 'brand', ends the run in the parse-error state with the
\* normalized text shown, and nothing is exported.
C7_ParseFailureHandled ==
    \A k \in 1..Len(calls) :
        (calls[k].kind = "text" /\ calls[k].header # BRAND)
        => /\ out = <<>>
           /\ \/ pc \in {"normalize", "parse", "assign"}
              \/ pc = "parse_error" /\ shown = <<corrected_csv>>

-----------------------------------------------------------------------------
(* C8 *)

\* C8: a call that raises, times out, or returns no choice or no text ends
\* the run in the handled API-error state; the run never goes on to parse.
C8_OracleErrorContract ==
    \A k \in 1..Len(calls) :
        calls[k].kind \in Failures => pc \in {"normalize", "api_error"}

=============================================================================
